---------------------------- MODULE Spec2Model ----------------------------
(***************************************************************************)
(* A model of bootstrap's ExecutionContext (src/bootstrap/src/utils/       *)
(* context.rs): the command-outcome cache of run_cmd, the internal         *)
(* executor, and the failure-policy handling, with several caller threads  *)
(* sharing one context; and the three other memo tables (file contents,    *)
(* path existence, path freshness) with read_file, path_exists and         *)
(* check_path_modifications.                                               *)
(*                                                                         *)
(* Spec has callers of run_cmd and of the diff-index check over the full   *)
(* descriptor domain; SpecTables has callers of all four memoised          *)
(* operations; FairSpecLocks is the four operations reduced to their       *)
(* locking, under fair scheduling.                                         *)
(*                                                                         *)
(* The external world is the function `world`: what the operating system   *)
(* does when the command of a given key is launched.  It is fixed for the  *)
(* lifetime of one context, so that "a command that exits non-zero" is a   *)
(* property of the key.                                                    *)
(***************************************************************************)
EXTENDS Naturals, Sequences, FiniteSets, TLC

\* ------------------------------------------------------------------ bounds
NumThreads == 2        \* caller threads sharing the context
MaxCalls == 2          \* calls made over the life of the context

Threads == 1..NumThreads

\* ------------------------------------------------------- descriptor domain
\* Programs, argument vectors (each argument a byte string, as OsStr is on
\* unix) and working directories callers build descriptors from.
NoDir == "None"
Programs == {"git"}
\* the bytes of "diff-index", "--quiet", "--" (context.rs:220) and of the
\* base revisions and path lists callers of the diff-index check pass
DiffIndexWord == <<100, 105, 102, 102, 45, 105, 110, 100, 101, 120>>
QuietWord == <<45, 45, 113, 117, 105, 101, 116>>
DashDash == <<45, 45>>
Bases == {<<72, 69, 65, 68>>}
DiffPathLists == {<< >>}

\* cmd.args(["diff-index", "--quiet", base, "--"]).args(paths) (context.rs:220)
DiffIndexArgs(base, paths) == <<DiffIndexWord, QuietWord, base, DashDash>> \o paths

ArgLists ==
    {<< <<100>> >>} \cup {DiffIndexArgs(b, ps) : b \in Bases, ps \in DiffPathLists}
Dirs == {NoDir}

\* BehaviorOnFailure (super::exec), as matched at context.rs:89-101
BehaviorOnFailure == {"Exit", "DelayFail", "Ignore"}
\* OutputMode (super::exec), the variants used at context.rs:212,223
OutputMode == {"Print", "Capture"}

\* BootstrapCommand: the fields context.rs reads or writes
BootstrapCommand ==
    [program : Programs, args : ArgLists, cwd : Dirs,
     failure_behavior : BehaviorOnFailure, run_always : BOOLEAN,
     executed : {FALSE}]

\* BootstrapCommand::new(program): no arguments, inherited directory,
\* Exit policy, not run in dry-run
new_command(program) ==
    [program |-> program, args |-> << >>, cwd |-> NoDir,
     failure_behavior |-> "Exit", run_always |-> FALSE, executed |-> FALSE]

\* cmd.allow_failure()
allow_failure(c) == [c EXCEPT !.failure_behavior = "Ignore"]

\* cmd.run_always()
run_always(c) == [c EXCEPT !.run_always = TRUE]

\* ------------------------------------------------- file and freshness domain
\* paths handed to read_file and path_exists
Paths == {"/p", "/q"}
\* what std::fs::read_to_string yields: a text, or an io::Error
FileTexts == {"text1", "text2"}
\* source roots, VCS configurations and pattern lists (each pattern a byte
\* string) handed to check_path_modifications
SrcDirs == {"/src", "/other"}
GitConfigs == {"cfgA", "cfgB"}
PatternLists == {<< <<97>>, <<98>> >>, << <<97, 44, 98>> >>}
\* PathFreshness (build_helper::git)
PathFreshness == {"LastModifiedUpstream", "HasLocalModifications", "MissingUpstream"}

\* paths.join(","): the patterns with a comma (byte 44) between them
RECURSIVE Join(_)
Join(ps) ==
    IF Len(ps) = 0 THEN << >>
    ELSE IF Len(ps) = 1 THEN ps[1]
    ELSE ps[1] \o <<44>> \o Join(Tail(ps))

\* INTERNER.intern_str(s): a handle, equal for equal strings
intern_str(s) == [interned |-> s]

\* a freshness key made of the joined patterns alone
PmKeyOf_PatternsOnly(src_dir, ps) == <<"/src", intern_str(Join(ps))>>

\* the key of path_modifications_cache (context.rs:155)
PmKeyOf(src_dir, ps) == <<src_dir, intern_str(Join(ps))>>

PmKeys == {PmKeyOf(d, ps) : d \in SrcDirs, ps \in PatternLists}

\* What launching a key's command does: exits 0, exits non-zero, or the
\* spawn itself fails (command.output() returns Err).
WorldBehaviour == {"exit0", "exit1", "nostart"}

\* ------------------------------------------------------------ CommandOutput
NotCaptured == "not captured"
CapturedText == "text"

\* CommandOutput::default(): did not run, trivially successful
DefaultOutput ==
    [started |-> FALSE, status |-> "success",
     stdout |-> NotCaptured, stderr |-> NotCaptured]

\* the captured value of one stream under its mode
Captured(mode) == IF mode = "Capture" THEN CapturedText ELSE NotCaptured

\* CommandOutput::from_output(output, stdout_mode, stderr_mode)
from_output(exit, stdout_mode, stderr_mode) ==
    [started |-> TRUE,
     status |-> IF exit = "exit0" THEN "success" ELSE "failure",
     stdout |-> Captured(stdout_mode), stderr |-> Captured(stderr_mode)]

\* CommandOutput::did_not_start(stdout_mode, stderr_mode)
did_not_start(stdout_mode, stderr_mode) ==
    [started |-> FALSE, status |-> "failure",
     stdout |-> Captured(stdout_mode), stderr |-> Captured(stderr_mode)]

is_success(output) == output.status = "success"
is_failure(output) == ~is_success(output)
stderr_if_present(output) == output.stderr # NotCaptured

\* cmd.mark_as_executed()
mark_as_executed(cmd) == [cmd EXCEPT !.executed = TRUE]

\* Result<CommandOutput, String>
Ok(output) == [tag |-> "Ok", out |-> output]
Err(msg) == [tag |-> "Err", msg |-> msg]
NoResult == [tag |-> "none"]

\* format!("failed to execute {:?}: {}", command, e) and
\* format!("command failed: {:?}", cmd): the text names the command
ErrorMsg(kind, c) ==
    [kind |-> kind, program |-> c.program, args |-> c.args, cwd |-> c.cwd]

\* ------------------------------------------------------------------- state
VARIABLES
    dry_run,                \* ExecutionContext.dry_run
    fail_fast,              \* ExecutionContext.fail_fast
    command_output_cache,   \* the HashMap inside the Mutex: key -> Result
    cache_lock,             \* holder of command_output_cache's Mutex, 0 = free
    world,                  \* key -> what launching that command does
    process,                \* "running", or "exited" after process::exit
    exit_code,              \* the code passed to process::exit, 0 while running
    stderr_lines,           \* lines eprintln!-ed by the call in progress
    pc,                     \* per thread: where it is inside run_cmd
    cmd,                    \* per thread: the BootstrapCommand of its call
    modes,                  \* per thread: <<stdout_mode, stderr_mode>> of its call
    command_key,            \* per thread: run_cmd's local command_key
    result,                 \* per thread: run_cmd's local / returned result
    ncalls,                 \* run_cmd calls that got the lock so far
    was_hit,                \* per thread: its call found its key in the cache
    invoked,                \* per thread: its call reached command.output()
    invocations,            \* key -> times command.output() was called
    misses,                 \* key -> times a caller found no entry for the key
    first_result,           \* key -> the result the first returning call got
    ref_cache,              \* the cache of a dry_run=false context fed the same calls
    ref_alive,              \* whether that reference context's process still runs
    ref_result,             \* per thread: what the reference context returned
    via,                    \* per thread: the public operation that called run_cmd
    file_contents_cache,    \* the HashMap inside its Mutex: path -> io::Result<String>
    file_lock,              \* holder of file_contents_cache's Mutex, 0 = free
    file_poisoned,          \* a holder of file_contents_cache's Mutex panicked
    path_exist_cache,       \* the HashMap inside its Mutex: path -> bool
    exist_lock,             \* holder of path_exist_cache's Mutex, 0 = free
    path_modifications_cache, \* the HashMap inside its Mutex: key -> PathFreshness
    pm_lock,                \* holder of path_modifications_cache's Mutex, 0 = free
    pm_poisoned,            \* a holder of path_modifications_cache's Mutex panicked
    arg,                    \* per thread: the arguments of its table operation
    reads,                  \* path -> times std::fs::read_to_string was called
    stats,                  \* path -> times Path::exists was called
    oracle_runs,            \* freshness key -> times the oracle was called
    pm_inputs,              \* freshness key -> arguments of the call that stored it
    first_read,             \* path -> what the first read_to_string yielded
    first_exists            \* path -> what the first Path::exists yielded

vars == <<dry_run, fail_fast, command_output_cache, cache_lock, world, process,
          exit_code, stderr_lines, pc, cmd, modes, command_key, result, ncalls,
          was_hit, invoked, invocations, misses, first_result, ref_cache,
          ref_alive, ref_result, via, file_contents_cache, file_lock,
          file_poisoned, path_exist_cache, exist_lock, path_modifications_cache,
          pm_lock, pm_poisoned, arg, reads, stats, oracle_runs, pm_inputs,
          first_read, first_exists>>

ctx_vars == <<dry_run, fail_fast, world>>
ghost_ref == <<ref_cache, ref_alive, ref_result>>
\* the three other tables, their locks and what is recorded about them
tab_vars == <<file_contents_cache, file_lock, file_poisoned, path_exist_cache,
              exist_lock, path_modifications_cache, pm_lock, pm_poisoned, arg,
              reads, stats, oracle_runs, pm_inputs, first_read, first_exists>>

\* ------------------------------------------------------------------ run_cmd
\* the (program, arguments, working directory) key of a descriptor:
\* as_bytes() of an OsStr on unix is the byte string itself
KeyOf(c) == <<c.program, c.args, c.cwd>>

Keys == {KeyOf(c) : c \in BootstrapCommand}

NoCmd == [program |-> "none"]
NoKey == <<"none">>
NoModes == <<"none", "none">>
NoArg == <<"none">>

\* a lookup that never finds the key
CacheHit_AlwaysMiss(cache, key) == FALSE

\* cache.get(&key)
CacheHit(cache, key) == key \in DOMAIN cache

\* an insert that evicts every other entry
CacheInsert_Evicts(cache, key, value) == [k \in {key} |-> value]

\* cache.insert(key, value)
CacheInsert(cache, key, value) ==
    [k \in DOMAIN cache \cup {key} |-> IF k = key THEN value ELSE cache[k]]

EmptyCache == [k \in {} |-> NoResult]

\* self.fatal_error(msg): eprintln!("fatal error: ...") then process::exit(1)
FatalExitCode == 1

\* failure handling in which a delayed failure also ends the process under
\* fail_fast
handle_failure_DelayFailExits(ff, c, output) ==
    LET head == IF stderr_if_present(output) THEN <<"error with stderr">>
                ELSE <<"error">>
    IN CASE c.failure_behavior \in {"Exit", "DelayFail"} /\ ff ->
              [exit |-> TRUE, lines |-> Append(head, "fatal error:")]
         [] c.failure_behavior = "Exit" /\ ~ff ->
              [exit |-> FALSE, lines |-> Append(head, "(Failure Delayed)")]
         [] c.failure_behavior = "DelayFail" /\ ~ff ->
              [exit |-> FALSE, lines |-> Append(head, "(Failure delayed)")]
         [] c.failure_behavior = "Ignore" ->
              [exit |-> FALSE, lines |-> head]

\* failure handling in which fail_fast never ends the process
handle_failure_ExitDelays(ff, c, output) ==
    LET head == IF stderr_if_present(output) THEN <<"error with stderr">>
                ELSE <<"error">>
    IN CASE c.failure_behavior = "Exit" ->
              [exit |-> FALSE, lines |-> Append(head, "(Failure Delayed)")]
         [] c.failure_behavior = "DelayFail" ->
              [exit |-> FALSE, lines |-> Append(head, "(Failure delayed)")]
         [] c.failure_behavior = "Ignore" ->
              [exit |-> FALSE, lines |-> head]

\* handle_failure (context.rs:82-103): the lines it prints, and whether it
\* ends in fatal_error
handle_failure(ff, c, output) ==
    LET head == IF stderr_if_present(output) THEN <<"error with stderr">>
                ELSE <<"error">>
    IN CASE c.failure_behavior = "Exit" /\ ff ->
              [exit |-> TRUE, lines |-> Append(head, "fatal error:")]
         [] c.failure_behavior = "Exit" /\ ~ff ->
              [exit |-> FALSE, lines |-> Append(head, "(Failure Delayed)")]
         [] c.failure_behavior = "DelayFail" ->
              [exit |-> FALSE, lines |-> Append(head, "(Failure delayed)")]
         [] c.failure_behavior = "Ignore" ->
              [exit |-> FALSE, lines |-> head]

\* What execute_bootstrap_command_internal hands back, as a record:
\*   result  - the value returned (unused when exit)
\*   exit    - process::exit was reached inside handle_failure
\*   invoked - command.output() was called
\*   cmd     - the descriptor afterwards
\*   lines   - what failure handling printed

\* the dry-run branch (context.rs:44-48)
dry_run_skip(c) ==
    [result |-> Ok(DefaultOutput), exit |-> FALSE, invoked |-> FALSE,
     cmd |-> mark_as_executed(c), lines |-> <<>>]

\* a launch failure that an Ignore policy would swallow
launch_failed_IgnoreAbsorbs(ff, c, stdout_mode, stderr_mode) ==
    LET output == did_not_start(stdout_mode, stderr_mode)
        h == handle_failure(ff, c, output)
    IN [result |-> IF c.failure_behavior = "Ignore" THEN Ok(output)
                   ELSE Err(ErrorMsg("failed to execute", c)),
        exit |-> h.exit, invoked |-> TRUE, cmd |-> c, lines |-> h.lines]

\* command.output() returned Err(e) (context.rs:61-67)
launch_failed(ff, c, stdout_mode, stderr_mode) ==
    LET output == did_not_start(stdout_mode, stderr_mode)
        h == handle_failure(ff, c, output)
    IN [result |-> Err(ErrorMsg("failed to execute", c)), exit |-> h.exit,
        invoked |-> TRUE, cmd |-> c, lines |-> h.lines]

\* the two modes handed to from_output in the wrong order
launch_finished_SwappedModes(ff, w, c, stdout_mode, stderr_mode) ==
    LET output == from_output(w, stderr_mode, stdout_mode)
        c2 == mark_as_executed(c)
    IN IF is_failure(output) /\ c2.failure_behavior # "Ignore"
       THEN LET h == handle_failure(ff, c2, output)
            IN [result |-> Err(ErrorMsg("command failed", c2)), exit |-> h.exit,
                invoked |-> TRUE, cmd |-> c2, lines |-> h.lines]
       ELSE [result |-> Ok(output), exit |-> FALSE, invoked |-> TRUE,
             cmd |-> c2, lines |-> <<>>]

\* command.output() returned Ok(output): build the outcome, mark the
\* descriptor, apply the failure policy (context.rs:57-60, 70-78)
launch_finished(ff, w, c, stdout_mode, stderr_mode) ==
    LET output == from_output(w, stdout_mode, stderr_mode)
        c2 == mark_as_executed(c)
    IN IF is_failure(output) /\ c2.failure_behavior # "Ignore"
       THEN LET h == handle_failure(ff, c2, output)
            IN [result |-> Err(ErrorMsg("command failed", c2)), exit |-> h.exit,
                invoked |-> TRUE, cmd |-> c2, lines |-> h.lines]
       ELSE [result |-> Ok(output), exit |-> FALSE, invoked |-> TRUE,
             cmd |-> c2, lines |-> <<>>]

\* execute_bootstrap_command_internal (context.rs:43-79); w is what the
\* world does when the command is launched
execute_bootstrap_command_internal(dry, ff, w, c, stdout_mode, stderr_mode) ==
    IF dry /\ ~c.run_always
    THEN dry_run_skip(c)
    ELSE IF w = "nostart"
    THEN launch_failed(ff, c, stdout_mode, stderr_mode)
    ELSE launch_finished(ff, w, c, stdout_mode, stderr_mode)

\* ------------------------------------------------------------------ actions
Init ==
    /\ dry_run \in BOOLEAN
    /\ fail_fast \in BOOLEAN
    /\ world \in [Keys -> WorldBehaviour]
    /\ command_output_cache = EmptyCache
    /\ cache_lock = 0
    /\ process = "running"
    /\ exit_code = 0
    /\ stderr_lines = <<>>
    /\ pc = [t \in Threads |-> "idle"]
    /\ cmd = [t \in Threads |-> NoCmd]
    /\ modes = [t \in Threads |-> NoModes]
    /\ command_key = [t \in Threads |-> NoKey]
    /\ result = [t \in Threads |-> NoResult]
    /\ ncalls = 0
    /\ was_hit = [t \in Threads |-> FALSE]
    /\ invoked = [t \in Threads |-> FALSE]
    /\ invocations = [k \in Keys |-> 0]
    /\ misses = [k \in Keys |-> 0]
    /\ first_result = [k \in Keys |-> NoResult]
    /\ ref_cache = EmptyCache
    /\ ref_alive = TRUE
    /\ ref_result = [t \in Threads |-> NoResult]
    /\ via = [t \in Threads |-> "none"]
    /\ file_contents_cache = EmptyCache
    /\ file_lock = 0
    /\ file_poisoned = FALSE
    /\ path_exist_cache = EmptyCache
    /\ exist_lock = 0
    /\ path_modifications_cache = EmptyCache
    /\ pm_lock = 0
    /\ pm_poisoned = FALSE
    /\ arg = [t \in Threads |-> NoArg]
    /\ reads = [p \in Paths |-> 0]
    /\ stats = [p \in Paths |-> 0]
    /\ oracle_runs = [k \in PmKeys |-> 0]
    /\ pm_inputs = [k \in PmKeys |-> NoArg]
    /\ first_read = [p \in Paths |-> NoResult]
    /\ first_exists = [p \in Paths |-> NoResult]

\* where a caller stands while it waits for a table's Mutex
Waiting == {"lock", "read_lock", "exists_lock", "pm_lock"}

\* a caller enters run_cmd (context.rs:132); it next needs the cache lock
Call(t) ==
    /\ process = "running"
    /\ pc[t] = "idle"
    /\ ncalls + Cardinality({u \in Threads : pc[u] \in Waiting}) < MaxCalls
    /\ pc' = [pc EXCEPT ![t] = "lock"]
    /\ UNCHANGED <<tab_vars, ctx_vars, command_output_cache, cache_lock, process, exit_code,
                   stderr_lines, cmd, modes, command_key, result, ncalls,
                   was_hit, invoked, invocations, misses, first_result,
                   ghost_ref, via>>

\* a lock that excludes nobody
LockFree_NoExclusion == TRUE

\* whether the Mutex can be taken
LockFree == cache_lock = 0

\* the descriptor git_command_status_for_diff_index builds (context.rs:217-222)
diff_index_command(cwd, base, paths) ==
    run_always(allow_failure([new_command("git") EXCEPT
                                 !.cwd = cwd, !.args = DiffIndexArgs(base, paths)]))

\* what git_command_status_for_diff_index makes of run_cmd's result: the ?
\* hands an Err on, Ok(!output.is_success()) otherwise (context.rs:223-225)
diff_index_status(r) ==
    IF r.tag = "Err" THEN r ELSE [tag |-> "Ok", differs |-> ~is_success(r.out)]

\* command_key = (program, args, cwd) of the descriptor, then
\* self.command_output_cache.lock().unwrap() (context.rs:133-141).  The
\* descriptor and the modes are the caller's own until it holds the lock, so
\* they are drawn here, when they first meet the shared state: either a
\* caller's own descriptor, or the one the diff-index check builds.
LockAs(t, c, stdout_mode, stderr_mode, caller) ==
    /\ process = "running"
    /\ pc[t] = "lock"
    /\ LockFree
    /\ cmd' = [cmd EXCEPT ![t] = c]
    /\ modes' = [modes EXCEPT ![t] = <<stdout_mode, stderr_mode>>]
    /\ command_key' = [command_key EXCEPT ![t] = KeyOf(c)]
    /\ via' = [via EXCEPT ![t] = caller]
    /\ cache_lock' = t
    /\ ncalls' = ncalls + 1
    /\ pc' = [pc EXCEPT ![t] = "lookup"]
    /\ UNCHANGED <<tab_vars, ctx_vars, command_output_cache, process, exit_code,
                   stderr_lines, result, was_hit, invoked, invocations, misses,
                   first_result, ghost_ref>>

\* run_cmd called through git_command_status_for_diff_index
\* (context.rs:216-223)
LockDiffIndex(t) ==
    \E cwd \in Dirs, base \in Bases, paths \in DiffPathLists :
        LockAs(t, diff_index_command(cwd, base, paths), "Print", "Print",
               "git_command_status_for_diff_index")

Lock(t) ==
    \/ \E c \in BootstrapCommand, so \in OutputMode, se \in OutputMode :
          LockAs(t, c, so, se, "run_cmd")
    \/ LockDiffIndex(t)

\* the result the first returning call for a key got
NoteFirst(key, r) ==
    IF first_result[key] = NoResult THEN [first_result EXCEPT ![key] = r]
    ELSE first_result

\* The same call applied, as one step, to a context constructed with
\* dry_run = false and the same fail_fast (run_cmd, context.rs:132-150).
\* Calls on one context are serialised by the cache lock, so the call takes
\* effect there in the order the lock is acquired here.
RefRunCmd(t) ==
    LET key == command_key[t]
        e == execute_bootstrap_command_internal(FALSE, fail_fast, world[key],
                                                cmd[t], modes[t][1], modes[t][2])
    IN IF ~ref_alive
       THEN UNCHANGED ghost_ref
       ELSE IF CacheHit(ref_cache, key)
       THEN /\ ref_result' = [ref_result EXCEPT ![t] = ref_cache[key]]
            /\ UNCHANGED <<ref_cache, ref_alive>>
       ELSE IF e.exit
       THEN /\ ref_alive' = FALSE
            /\ UNCHANGED <<ref_cache, ref_result>>
       ELSE /\ ref_cache' = CacheInsert(ref_cache, key, e.result)
            /\ ref_result' = [ref_result EXCEPT ![t] = e.result]
            /\ UNCHANGED ref_alive

\* cache.get(&command_key): on a hit the clone is the return value; on a miss
\* go on to execute (context.rs:142-145)
Lookup(t) ==
    /\ process = "running"
    /\ pc[t] = "lookup"
    /\ RefRunCmd(t)
    /\ IF CacheHit(command_output_cache, command_key[t])
       THEN /\ result' = [result EXCEPT ![t] = command_output_cache[command_key[t]]]
            /\ first_result' = NoteFirst(command_key[t],
                                         command_output_cache[command_key[t]])
            /\ pc' = [pc EXCEPT ![t] = "return"]
            /\ was_hit' = [was_hit EXCEPT ![t] = TRUE]
            /\ UNCHANGED misses
       ELSE /\ misses' = [misses EXCEPT ![command_key[t]] = @ + 1]
            /\ pc' = [pc EXCEPT ![t] = "execute"]
            /\ UNCHANGED <<result, first_result, was_hit>>
    /\ UNCHANGED <<tab_vars, ctx_vars, command_output_cache, cache_lock, process, exit_code,
                   stderr_lines, cmd, modes, command_key, ncalls, invoked,
                   invocations, via>>

\* self.execute_bootstrap_command_internal(&mut cmd, stdout_mode, stderr_mode)
\* (context.rs:147); fatal_error inside it ends the process with the guard held
Execute(t) ==
    /\ process = "running"
    /\ pc[t] = "execute"
    /\ LET key == command_key[t]
           e == execute_bootstrap_command_internal(dry_run, fail_fast, world[key],
                                                   cmd[t], modes[t][1], modes[t][2])
       IN /\ cmd' = [cmd EXCEPT ![t] = e.cmd]
          /\ invocations' = [invocations EXCEPT
                                ![key] = IF e.invoked THEN @ + 1 ELSE @]
          /\ invoked' = [invoked EXCEPT ![t] = e.invoked]
          /\ stderr_lines' = e.lines
          /\ IF e.exit
             THEN /\ process' = "exited"
                  /\ exit_code' = FatalExitCode
                  /\ pc' = [pc EXCEPT ![t] = "exited"]
                  /\ UNCHANGED result
             ELSE /\ result' = [result EXCEPT ![t] = e.result]
                  /\ pc' = [pc EXCEPT ![t] = "insert"]
                  /\ UNCHANGED <<process, exit_code>>
    /\ UNCHANGED <<tab_vars, ctx_vars, command_output_cache, cache_lock, modes, command_key,
                   ncalls, was_hit, misses, first_result, ghost_ref, via>>

\* cache.insert(command_key.clone(), result.clone()); result is then the
\* return value (context.rs:148-149)
Insert(t) ==
    /\ process = "running"
    /\ pc[t] = "insert"
    /\ command_output_cache' =
          CacheInsert(command_output_cache, command_key[t], result[t])
    /\ first_result' = NoteFirst(command_key[t], result[t])
    /\ pc' = [pc EXCEPT ![t] = "return"]
    /\ UNCHANGED <<tab_vars, ctx_vars, cache_lock, process, exit_code, stderr_lines, cmd,
                   modes, command_key, result, ncalls, was_hit, invoked,
                   invocations, misses, ghost_ref, via>>

\* run_cmd returns result[t] to its caller: the MutexGuard goes out of scope
\* and the lock is released (context.rs:144, 149-150); the call's locals end
Return(t) ==
    /\ process = "running"
    /\ pc[t] = "return"
    /\ cache_lock' = 0
    /\ pc' = [pc EXCEPT ![t] = "idle"]
    /\ cmd' = [cmd EXCEPT ![t] = NoCmd]
    /\ modes' = [modes EXCEPT ![t] = NoModes]
    /\ command_key' = [command_key EXCEPT ![t] = NoKey]
    /\ result' = [result EXCEPT ![t] = NoResult]
    /\ ref_result' = [ref_result EXCEPT ![t] = NoResult]
    /\ stderr_lines' = <<>>
    /\ was_hit' = [was_hit EXCEPT ![t] = FALSE]
    /\ invoked' = [invoked EXCEPT ![t] = FALSE]
    /\ via' = [via EXCEPT ![t] = "none"]
    /\ UNCHANGED <<tab_vars, ctx_vars, command_output_cache, process, exit_code, ncalls,
                   invocations, misses, first_result, ref_cache, ref_alive>>

\* ------------------------------------------- the three other memo tables
\* what std::fs::read_to_string can yield for a path
ReadResults == {[tag |-> "Ok", text |-> x] : x \in FileTexts} \cup {[tag |-> "Err"]}
\* what the freshness oracle (build_helper::git::check_path_modifications)
\* can yield
OracleResults ==
    {[tag |-> "Ok", freshness |-> v] : v \in PathFreshness} \cup {[tag |-> "Err"]}

\* &self as the operations see it: the four tables
Self ==
    [command_output_cache |-> command_output_cache,
     file_contents_cache |-> file_contents_cache,
     path_exist_cache |-> path_exist_cache,
     path_modifications_cache |-> path_modifications_cache]

\* What an operation on a table hands back, as a record:
\*   self     - the tables afterwards
\*   value    - the value returned (NoResult when it panicked)
\*   panicked - an expect() failed inside the operation
\*   called   - the underlying filesystem or oracle operation was called

\* read_file with the lock held (context.rs:108-116); fs is what
\* read_to_string yields if it is called
read_file(self, path, fs) ==
    IF CacheHit(self.file_contents_cache, path)
    THEN LET cached_result == self.file_contents_cache[path]
         IN [self |-> self,
             value |-> IF cached_result.tag = "Ok" THEN cached_result ELSE NoResult,
             panicked |-> cached_result.tag # "Ok",
             called |-> FALSE]
    ELSE IF fs.tag # "Ok"
    THEN [self |-> self, value |-> NoResult, panicked |-> TRUE, called |-> TRUE]
    ELSE [self |-> [self EXCEPT !.file_contents_cache = CacheInsert(@, path, fs)],
          value |-> fs, panicked |-> FALSE, called |-> TRUE]

\* a path_exists that also answers from the file table
path_exists_SharesFileTable(self, path, exists) ==
    IF CacheHit(self.path_exist_cache, path)
    THEN [self |-> self, value |-> [tag |-> "bool", b |-> self.path_exist_cache[path]],
          panicked |-> FALSE, called |-> FALSE]
    ELSE IF CacheHit(self.file_contents_cache, path)
    THEN [self |-> [self EXCEPT !.path_exist_cache = CacheInsert(@, path, TRUE)],
          value |-> [tag |-> "bool", b |-> TRUE], panicked |-> FALSE,
          called |-> FALSE]
    ELSE [self |-> [self EXCEPT !.path_exist_cache = CacheInsert(@, path, exists)],
          value |-> [tag |-> "bool", b |-> exists], panicked |-> FALSE,
          called |-> TRUE]

\* a path_exists that keeps no table
path_exists_NoMemo(self, path, exists) ==
    [self |-> [self EXCEPT !.path_exist_cache = CacheInsert(@, path, exists)],
     value |-> [tag |-> "bool", b |-> exists], panicked |-> FALSE, called |-> TRUE]

\* path_exists with the lock held (context.rs:121-129); exists is what
\* Path::exists yields if it is called
path_exists(self, path, exists) ==
    IF CacheHit(self.path_exist_cache, path)
    THEN [self |-> self, value |-> [tag |-> "bool", b |-> self.path_exist_cache[path]],
          panicked |-> FALSE, called |-> FALSE]
    ELSE [self |-> [self EXCEPT !.path_exist_cache = CacheInsert(@, path, exists)],
          value |-> [tag |-> "bool", b |-> exists], panicked |-> FALSE,
          called |-> TRUE]

\* check_path_modifications (context.rs:155-166); oracle is what the
\* freshness oracle yields if it is called
check_path_modifications(self, src_dir, git_config, paths, oracle) ==
    LET cache_key == PmKeyOf(src_dir, paths)
    IN IF CacheHit(self.path_modifications_cache, cache_key)
       THEN [self |-> self,
             value |-> [tag |-> "PathFreshness",
                        freshness |-> self.path_modifications_cache[cache_key]],
             panicked |-> FALSE, called |-> FALSE]
       ELSE IF oracle.tag # "Ok"
       THEN [self |-> self, value |-> NoResult, panicked |-> TRUE, called |-> TRUE]
       ELSE [self |-> [self EXCEPT !.path_modifications_cache =
                                      CacheInsert(@, cache_key, oracle.freshness)],
             value |-> [tag |-> "PathFreshness", freshness |-> oracle.freshness],
             panicked |-> FALSE, called |-> TRUE]

\* what the table operations leave alone of run_cmd's state
run_vars == <<cache_lock, cmd, modes, command_key, invoked, invocations, misses,
              first_result, via>>

\* a caller enters one of the table operations; it next needs that table's lock
Enters(t, at) ==
    /\ process = "running"
    /\ pc[t] = "idle"
    /\ ncalls + Cardinality({u \in Threads : pc[u] \in Waiting}) < MaxCalls
    /\ pc' = [pc EXCEPT ![t] = at]
    /\ UNCHANGED <<tab_vars, ctx_vars, run_vars, ghost_ref, command_output_cache,
                   process, exit_code, stderr_lines, result, ncalls, was_hit>>

\* read_file is entered (context.rs:106)
CallReadFile(t) == Enters(t, "read_lock")
\* path_exists is entered (context.rs:119)
CallPathExists(t) == Enters(t, "exists_lock")
\* check_path_modifications is entered (context.rs:153)
CallCheckPathModifications(t) == Enters(t, "pm_lock")

\* A failed expect() or unwrap(): the thread unwinds and prints the panic
\* message.  If it is the main thread the process ends with the runtime's
\* panic status 101; if it was spawned only that thread ends.
Panics(t, at, msg) ==
    /\ pc' = [pc EXCEPT ![t] = at]
    /\ stderr_lines' = <<msg>>
    /\ \/ /\ process' = "panicked"
          /\ exit_code' = 101
       \/ UNCHANGED <<process, exit_code>>

\* the tables as an operation leaves them
TablesBecome(self) ==
    /\ command_output_cache' = self.command_output_cache
    /\ file_contents_cache' = self.file_contents_cache
    /\ path_exist_cache' = self.path_exist_cache
    /\ path_modifications_cache' = self.path_modifications_cache

\* a guard that is never dropped
drop_guard_Leaks(lock, t) == lock

\* the MutexGuard of thread t goes out of scope
drop_guard(lock, t) == IF lock = t THEN 0 ELSE lock

\* read_file (context.rs:106-116): lock().unwrap(), which panics if an
\* earlier holder panicked; then the body; the guard is held until the value
\* is returned, and dropped (poisoning the Mutex) when expect() panics.
ReadFileOn(t, paths, results) ==
    /\ process = "running"
    /\ pc[t] = "read_lock"
    /\ file_lock = 0
    /\ ncalls' = ncalls + 1
    /\ IF file_poisoned
       THEN /\ Panics(t, "poisoned", "PoisonError")
            /\ UNCHANGED <<command_output_cache, file_contents_cache,
                           path_exist_cache, path_modifications_cache, file_lock,
                           file_poisoned, arg, result, was_hit, reads, first_read>>
       ELSE \E path \in paths, fs \in results :
               LET o == read_file(Self, path, fs)
               IN /\ TablesBecome(o.self)
                  /\ reads' = [reads EXCEPT ![path] = IF o.called THEN @ + 1 ELSE @]
                  /\ first_read' = IF o.called /\ first_read[path] = NoResult
                                   THEN [first_read EXCEPT ![path] = fs]
                                   ELSE first_read
                  /\ IF o.panicked
                     THEN /\ Panics(t, "read_failed", "Should be present")
                          /\ file_poisoned' = TRUE
                          /\ UNCHANGED <<file_lock, arg, result, was_hit>>
                     ELSE /\ file_lock' = t
                          /\ arg' = [arg EXCEPT ![t] = <<path>>]
                          /\ result' = [result EXCEPT ![t] = o.value]
                          /\ was_hit' = [was_hit EXCEPT ![t] = ~o.called]
                          /\ pc' = [pc EXCEPT ![t] = "read_return"]
                          /\ UNCHANGED <<file_poisoned, process, exit_code,
                                         stderr_lines>>
    /\ UNCHANGED <<ctx_vars, run_vars, ghost_ref, exist_lock, pm_lock, pm_poisoned,
                   stats, oracle_runs, pm_inputs, first_exists>>

ReadFile(t) == ReadFileOn(t, Paths, ReadResults)

\* path_exists (context.rs:119-129); nothing under this lock can panic
PathExistsOn(t, paths, answers) ==
    /\ process = "running"
    /\ pc[t] = "exists_lock"
    /\ exist_lock = 0
    /\ ncalls' = ncalls + 1
    /\ \E path \in paths, exists \in answers :
          LET o == path_exists(Self, path, exists)
          IN /\ TablesBecome(o.self)
             /\ stats' = [stats EXCEPT ![path] = IF o.called THEN @ + 1 ELSE @]
             /\ first_exists' = IF o.called /\ first_exists[path] = NoResult
                                THEN [first_exists EXCEPT
                                         ![path] = [tag |-> "bool", b |-> exists]]
                                ELSE first_exists
             /\ exist_lock' = t
             /\ arg' = [arg EXCEPT ![t] = <<path>>]
             /\ result' = [result EXCEPT ![t] = o.value]
             /\ was_hit' = [was_hit EXCEPT ![t] = ~o.called]
             /\ pc' = [pc EXCEPT ![t] = "exists_return"]
    /\ UNCHANGED <<ctx_vars, run_vars, ghost_ref, process, exit_code, stderr_lines,
                   file_lock, file_poisoned, pm_lock, pm_poisoned, reads,
                   oracle_runs, pm_inputs, first_read>>

PathExists(t) == PathExistsOn(t, Paths, BOOLEAN)

\* check_path_modifications (context.rs:153-166): the key, lock().unwrap(),
\* the lookup, the oracle and its expect(), the insert
CheckPathModificationsOn(t, dirs, configs, lists, verdicts) ==
    /\ process = "running"
    /\ pc[t] = "pm_lock"
    /\ pm_lock = 0
    /\ ncalls' = ncalls + 1
    /\ IF pm_poisoned
       THEN /\ Panics(t, "poisoned", "PoisonError")
            /\ UNCHANGED <<command_output_cache, file_contents_cache,
                           path_exist_cache, path_modifications_cache, pm_lock,
                           pm_poisoned, arg, result, was_hit, oracle_runs,
                           pm_inputs>>
       ELSE \E src_dir \in dirs, git_config \in configs,
               paths \in lists, oracle \in verdicts :
               LET o == check_path_modifications(Self, src_dir, git_config,
                                                 paths, oracle)
                   cache_key == PmKeyOf(src_dir, paths)
               IN /\ TablesBecome(o.self)
                  /\ oracle_runs' = [oracle_runs EXCEPT
                                        ![cache_key] = IF o.called THEN @ + 1 ELSE @]
                  /\ IF o.panicked
                     THEN /\ Panics(t, "oracle_failed",
                                    "check_path_modification_with_context failed")
                          /\ pm_poisoned' = TRUE
                          /\ UNCHANGED <<pm_lock, arg, result, was_hit, pm_inputs>>
                     ELSE /\ pm_lock' = t
                          /\ arg' = [arg EXCEPT ![t] = <<src_dir, git_config, paths>>]
                          /\ result' = [result EXCEPT ![t] = o.value]
                          /\ was_hit' = [was_hit EXCEPT ![t] = ~o.called]
                          /\ pm_inputs' = IF o.called
                                          THEN [pm_inputs EXCEPT ![cache_key] =
                                                   <<src_dir, git_config, paths>>]
                                          ELSE pm_inputs
                          /\ pc' = [pc EXCEPT ![t] = "pm_return"]
                          /\ UNCHANGED <<pm_poisoned, process, exit_code,
                                         stderr_lines>>
    /\ UNCHANGED <<ctx_vars, run_vars, ghost_ref, file_lock, file_poisoned,
                   exist_lock, reads, stats, first_read, first_exists>>

CheckPathModifications(t) ==
    CheckPathModificationsOn(t, SrcDirs, GitConfigs, PatternLists, OracleResults)

\* a table operation returns result[t] to its caller: its MutexGuard goes out
\* of scope (context.rs:110, 116, 123, 129, 160, 166); the call's locals end
TableReturn(t) ==
    /\ process = "running"
    /\ pc[t] \in {"read_return", "exists_return", "pm_return"}
    /\ file_lock' = drop_guard(file_lock, t)
    /\ exist_lock' = drop_guard(exist_lock, t)
    /\ pm_lock' = drop_guard(pm_lock, t)
    /\ pc' = [pc EXCEPT ![t] = "idle"]
    /\ arg' = [arg EXCEPT ![t] = NoArg]
    /\ result' = [result EXCEPT ![t] = NoResult]
    /\ was_hit' = [was_hit EXCEPT ![t] = FALSE]
    /\ UNCHANGED <<ctx_vars, run_vars, ghost_ref, command_output_cache,
                   file_contents_cache, path_exist_cache, path_modifications_cache,
                   file_poisoned, pm_poisoned, process, exit_code, stderr_lines,
                   ncalls, reads, stats, oracle_runs, pm_inputs, first_read,
                   first_exists>>

Next ==
    \E t \in Threads :
        \/ Call(t)
        \/ Lock(t)
        \/ Lookup(t)
        \/ Execute(t)
        \/ Insert(t)
        \/ Return(t)

Spec == Init /\ [][Next]_vars

\* The context with all four memoised operations in use: read_file,
\* path_exists, check_path_modifications, and run_cmd as the diff-index check
\* calls it.  The diff-index descriptor is run_always with Ignore policy, so
\* dry_run and fail_fast do not bear on it and one pair of them stands for all.
InitTables ==
    /\ Init
    /\ ~dry_run
    /\ ~fail_fast
    /\ \A k \in Keys : k[2] = << <<100>> >> => world[k] = "exit0"

NextTables ==
    \E t \in Threads :
        \/ CallReadFile(t)
        \/ ReadFile(t)
        \/ CallPathExists(t)
        \/ PathExists(t)
        \/ CallCheckPathModifications(t)
        \/ CheckPathModifications(t)
        \/ TableReturn(t)
        \/ Call(t)
        \/ LockDiffIndex(t)
        \/ Lookup(t)
        \/ Execute(t)
        \/ Insert(t)
        \/ Return(t)

SpecTables == InitTables /\ [][NextTables]_vars

\* For the progress of callers the values in the tables do not matter, only
\* who holds which lock and whether a holder panicked: one path, one freshness
\* key, one text and one verdict, each external call succeeding or failing.
InitLocks ==
    /\ InitTables
    /\ \A k \in Keys : world[k] = "exit0"

\* lock().unwrap() returns to thread t, on any of the four tables
Acquire(t) ==
    \/ LockDiffIndex(t)
    \/ ReadFileOn(t, {"/p"}, {[tag |-> "Ok", text |-> "text1"], [tag |-> "Err"]})
    \/ PathExistsOn(t, {"/p"}, {TRUE})
    \/ CheckPathModificationsOn(t, {"/src"}, {"cfgA"}, {<< <<97>>, <<98>> >>},
                                {[tag |-> "Ok", freshness |-> "MissingUpstream"],
                                 [tag |-> "Err"]})

\* what a thread does once lock() has returned to it
HolderStep(t) ==
    Lookup(t) \/ Execute(t) \/ Insert(t) \/ Return(t) \/ TableReturn(t)

NextLocks ==
    \E t \in Threads :
        \/ CallReadFile(t)
        \/ CallPathExists(t)
        \/ CallCheckPathModifications(t)
        \/ Call(t)
        \/ Acquire(t)
        \/ HolderStep(t)

\* The context under the scheduling the operations rely on: a thread that
\* holds a table's lock keeps running until it returns (every external
\* operation returns), and a thread waiting in lock() is not passed over for
\* ever while the Mutex keeps becoming free.
FairSpecLocks ==
    /\ InitLocks
    /\ [][NextLocks]_vars
    /\ \A t \in Threads :
          /\ WF_vars(HolderStep(t))
          /\ SF_vars(Acquire(t))

\* --------------------------------------------------------------- properties
\* A thread at "return" holds in result[t] the value run_cmd is about to hand
\* to its caller; the properties of what a call returns are read there.
Returning(t) == pc[t] = "return"
InGuard(t) == pc[t] \in {"lookup", "execute", "insert", "return"}

\* C1: for every key command.output() is called at most once over the life
\* of the context, and every call for that key returns the result the first
\* returning call for that key got.
C1_LaunchedOnceSameResult ==
    /\ \A k \in Keys : invocations[k] <= 1
    /\ \A t \in Threads :
          Returning(t) => result[t] = first_result[command_key[t]]

\* C1 witness: the second of two calls with one key is served from the cache
\* after the first one launched the process.
C1_Witness ==
    \E t \in Threads :
        /\ Returning(t) /\ was_hit[t] /\ ncalls = 2
        /\ invocations[command_key[t]] = 1
        /\ result[t].tag = "Ok" /\ result[t].out.started

\* C2: no key is ever found missing by two callers, and a caller between its
\* lookup and its return is the holder of the cache lock, so no two callers
\* are between lookup and return at once.
C2_OneMissPerKeyUnderLock ==
    /\ \A k \in Keys : misses[k] <= 1
    /\ \A t \in Threads : InGuard(t) => cache_lock = t

\* C2 witness: one caller is executing the command of a key it found
\* missing while another caller waits for the lock.
C2_Witness ==
    \E t, u \in Threads :
        /\ t # u /\ pc[t] = "execute" /\ pc[u] = "lock"
        /\ misses[command_key[t]] = 1 /\ cache_lock = t

\* C3 (as stated): in a dry-run context a call whose descriptor has
\* run_always = false never reaches command.output() and returns
\* Ok(default outcome), whatever calls came before.
C3_DryRunReturnsDefault ==
    \A t \in Threads :
        (dry_run /\ Returning(t) /\ ~cmd[t].run_always)
            => (~invoked[t] /\ result[t] = Ok(DefaultOutput))

\* C4 (as stated): in a dry-run context a call whose descriptor has
\* run_always = true returns what the same calls return in a context with
\* dry_run = false.
C4_RunAlwaysAsOutsideDryRun ==
    \A t \in Threads :
        (dry_run /\ Returning(t) /\ cmd[t].run_always /\ ref_result[t] # NoResult)
            => result[t] = ref_result[t]

\* C5 (as stated): a call with an Ignore-policy descriptor, for a command
\* that was launched and exits non-zero, returns Ok.
C5_IgnoreReturnsOk ==
    \A t \in Threads :
        (/\ Returning(t)
         /\ cmd[t].failure_behavior = "Ignore"
         /\ world[command_key[t]] = "exit1"
         /\ invocations[command_key[t]] >= 1)
            => result[t].tag = "Ok"

\* C6 (as stated): a call with a DelayFail- or Exit-policy descriptor, for a
\* command that was launched and exits non-zero, returns Err if it returns.
C6_FailureReturnsErr ==
    \A t \in Threads :
        (/\ Returning(t)
         /\ cmd[t].failure_behavior \in {"DelayFail", "Exit"}
         /\ world[command_key[t]] = "exit1"
         /\ invocations[command_key[t]] >= 1)
            => result[t].tag = "Err"

\* C7 (as stated): with fail_fast, a call with an Exit-policy descriptor for
\* a command that was launched and exits non-zero never returns to its caller.
C7_ExitFailFastNeverReturns ==
    \A t \in Threads :
        ~(/\ fail_fast
          /\ Returning(t)
          /\ cmd[t].failure_behavior = "Exit"
          /\ world[command_key[t]] = "exit1"
          /\ invocations[command_key[t]] >= 1)

\* C8: the process ends only inside a call whose descriptor has the Exit
\* policy, and only with fail_fast; a failing DelayFail call, and a failing
\* Exit call without fail_fast, leave the process running and go on to
\* return Err.
C8_ExitOnlyForExitPolicyFailFast ==
    /\ process = "exited" =>
          /\ fail_fast
          /\ exit_code = FatalExitCode
          /\ \E t \in Threads :
                pc[t] = "exited" /\ cmd[t].failure_behavior = "Exit"
    /\ \A t \in Threads :
          (/\ pc[t] \in {"insert", "return"}
           /\ invoked[t]
           /\ world[command_key[t]] # "exit0"
           /\ \/ cmd[t].failure_behavior = "DelayFail"
              \/ cmd[t].failure_behavior = "Exit" /\ ~fail_fast)
              => (process = "running" /\ result[t].tag = "Err")

\* C8 witness: with fail_fast, a DelayFail call whose command exited non-zero
\* is returning Err with the process still running.
C8_Witness ==
    \E t \in Threads :
        /\ fail_fast /\ Returning(t) /\ invoked[t]
        /\ cmd[t].failure_behavior = "DelayFail"
        /\ world[command_key[t]] = "exit1"
        /\ result[t].tag = "Err" /\ process = "running"

\* the notice failure handling prints last for a policy that returns
DelayNotice(c) ==
    CASE c.failure_behavior = "Exit" -> "(Failure Delayed)"
      [] c.failure_behavior = "DelayFail" -> "(Failure delayed)"
      [] c.failure_behavior = "Ignore" -> stderr_lines[1]

\* C9: a call that reached command.output() and could not launch has run
\* failure handling with its own policy and, if the process still runs,
\* returns Err("failed to execute") and has stored it under its key, for
\* every policy; a later call for that key gets the stored Err and does not
\* reach command.output().
C9_LaunchFailureStoredAndReplayed ==
    \A t \in Threads :
        LET k == command_key[t] IN
        /\ (pc[t] \in {"insert", "return"} /\ invoked[t] /\ world[k] = "nostart")
              => /\ result[t] = Err(ErrorMsg("failed to execute", cmd[t]))
                 /\ stderr_lines # <<>>
                 /\ stderr_lines[Len(stderr_lines)] = DelayNotice(cmd[t])
        /\ (Returning(t) /\ invoked[t] /\ world[k] = "nostart")
              => /\ CacheHit(command_output_cache, k)
                 /\ command_output_cache[k] = result[t]
        /\ (Returning(t) /\ was_hit[t] /\ world[k] = "nostart"
              /\ invocations[k] >= 1)
              => /\ result[t].tag = "Err"
                 /\ result[t].msg.kind = "failed to execute"
                 /\ ~invoked[t]
                 /\ invocations[k] = 1

\* C9 witness: an Ignore-policy call is handed the stored launch failure of
\* its key from the cache.
C9_Witness ==
    \E t \in Threads :
        /\ Returning(t) /\ was_hit[t]
        /\ cmd[t].failure_behavior = "Ignore"
        /\ world[command_key[t]] = "nostart"
        /\ invocations[command_key[t]] = 1
        /\ result[t].tag = "Err"

\* in the outcome a call returns, a stream not requested with Capture is
\* "not captured"
StreamsFollowModes(t) ==
    /\ modes[t][1] # "Capture" => result[t].out.stdout = NotCaptured
    /\ modes[t][2] # "Capture" => result[t].out.stderr = NotCaptured

\* C10 (as stated): in every outcome a call returns, a stream the call did
\* not request with Capture is "not captured".
C10_NonCaptureNeverCarriesText ==
    \A t \in Threads :
        (Returning(t) /\ result[t].tag = "Ok") => StreamsFollowModes(t)

\* C10 (amended): in every outcome returned by a call that found its key
\* missing from the cache, a stream the call did not request with Capture is
\* "not captured".
C10_NonCaptureNotCapturedOnMiss ==
    \A t \in Threads :
        (Returning(t) /\ ~was_hit[t] /\ result[t].tag = "Ok")
            => StreamsFollowModes(t)

\* C10 witness: a call that launched its command with stdout printed and
\* stderr captured returns an outcome with only stderr carrying text.
C10_Witness ==
    \E t \in Threads :
        /\ Returning(t) /\ ~was_hit[t] /\ invoked[t]
        /\ modes[t] = <<"Print", "Capture">>
        /\ result[t].tag = "Ok"
        /\ result[t].out.stdout = NotCaptured
        /\ result[t].out.stderr = CapturedText


\* a thread about to return from git_command_status_for_diff_index
ReturningStatus(t) ==
    Returning(t) /\ via[t] = "git_command_status_for_diff_index"

\* C17 (as stated): git_command_status_for_diff_index runs git diff-index
\* --quiet <base> -- <paths> with Ignore policy and run_always set, and
\* returns Ok(false) when that command exits 0, Ok(true) when it exits
\* non-zero, and Err only when the launch itself failed.
C17_DiffIndexStatusFollowsExit ==
    \A t \in Threads :
        ReturningStatus(t)
            => /\ cmd[t].program = "git"
               /\ cmd[t].args \in {DiffIndexArgs(b, ps) :
                                       b \in Bases, ps \in DiffPathLists}
               /\ cmd[t].failure_behavior = "Ignore"
               /\ cmd[t].run_always
               /\ LET status == diff_index_status(result[t])
                      w == world[command_key[t]]
                  IN /\ w = "exit0" => status = [tag |-> "Ok", differs |-> FALSE]
                     /\ w = "exit1" => status = [tag |-> "Ok", differs |-> TRUE]
                     /\ status.tag = "Err" => w = "nostart"

\* C20: in a context with fail_fast = true, whenever an Err entry enters
\* the command table, the call that inserts it carries a DelayFail
\* descriptor, or an Ignore descriptor whose launch failed; no Err entry is
\* inserted for an Exit descriptor.
C20_FailFastStoresNoExitErr ==
    [][\A k \in Keys :
          (/\ fail_fast
           /\ ~CacheHit(command_output_cache, k)
           /\ CacheHit(command_output_cache', k)
           /\ command_output_cache'[k].tag = "Err")
              => \E t \in Threads :
                    /\ pc[t] = "insert"
                    /\ command_key[t] = k
                    /\ \/ cmd[t].failure_behavior = "DelayFail"
                       \/ /\ cmd[t].failure_behavior = "Ignore"
                          /\ command_output_cache'[k].msg.kind = "failed to execute"
                          /\ world[k] = "nostart"]_vars

\* a fail_fast context has just stored an Err and is returning it
C20_Witness ==
    \E t \in Threads :
        /\ fail_fast
        /\ Returning(t)
        /\ ~was_hit[t]
        /\ result[t].tag = "Err"
        /\ CacheHit(command_output_cache, command_key[t])
        /\ command_output_cache[command_key[t]] = result[t]

\* ------------------------------------------- properties of the other tables
\* a thread about to return from path_exists, read_file,
\* check_path_modifications; arg[t] holds the call's arguments
ReturningExists(t) == pc[t] = "exists_return"
ReturningRead(t) == pc[t] = "read_return"
ReturningFreshness(t) == pc[t] = "pm_return"

\* C14: over any sequence of path_exists calls Path::exists is called
\* exactly once for each path asked about, and every call for a path returns
\* the answer the first check gave, whatever a later check would answer.
C14_StatOncePerPath ==
    /\ \A p \in Paths :
          /\ stats[p] <= 1
          /\ stats[p] = 1 <=> CacheHit(path_exist_cache, p)
    /\ \A t \in Threads :
          ReturningExists(t)
              => /\ stats[arg[t][1]] = 1
                 /\ result[t] = first_exists[arg[t][1]]

\* a second path_exists for a path is returning the remembered answer
C14_Witness ==
    \E t \in Threads :
        /\ ReturningExists(t)
        /\ was_hit[t]
        /\ stats[arg[t][1]] = 1
        /\ result[t] = [tag |-> "bool", b |-> path_exist_cache[arg[t][1]]]

\* C13 (as stated): the result of the first read_file for a path, success or
\* failure, is recorded in the file table under that path and stays there
\* while the context lives.
C13_FirstReadRecorded ==
    \A p \in Paths :
        (process = "running" /\ first_read[p] # NoResult)
            => /\ CacheHit(file_contents_cache, p)
               /\ file_contents_cache[p] = first_read[p]

\* C12: a read_file call leaves the path-existence, command and freshness
\* tables as they were, a path_exists call leaves the file, command and
\* freshness tables as they were, and each of the two goes to the filesystem
\* for a path missing from its own table, whatever the other table holds.
C12_ReadAndExistsFrame ==
    [][\A t \in Threads :
          /\ (pc[t] = "read_lock" /\ pc'[t] # "read_lock")
                => /\ UNCHANGED <<path_exist_cache, command_output_cache,
                                  path_modifications_cache, stats>>
                   /\ (pc'[t] = "read_return"
                       /\ ~CacheHit(file_contents_cache, arg'[t][1]))
                         => reads'[arg'[t][1]] = reads[arg'[t][1]] + 1
          /\ (pc[t] = "exists_lock" /\ pc'[t] # "exists_lock")
                => /\ UNCHANGED <<file_contents_cache, command_output_cache,
                                  path_modifications_cache, reads>>
                   /\ (pc'[t] = "exists_return"
                       /\ ~CacheHit(path_exist_cache, arg'[t][1]))
                         => stats'[arg'[t][1]] = stats[arg'[t][1]] + 1]_vars

\* one path has been read and checked for existence, each with its own
\* filesystem call
C12_Witness ==
    \E p \in Paths :
        /\ CacheHit(file_contents_cache, p)
        /\ CacheHit(path_exist_cache, p)
        /\ reads[p] = 1
        /\ stats[p] = 1

\* the freshness key of the call thread t is returning from
OwnPmKey(t) == PmKeyOf(arg[t][1], arg[t][3])

\* the stored call for key k had the source root and the joined patterns of
\* the call thread t is returning from
SameRootAndJoin(t, k) ==
    /\ pm_inputs[k] # NoArg
    /\ pm_inputs[k][1] = arg[t][1]
    /\ Join(pm_inputs[k][3]) = Join(arg[t][3])

\* C15: the oracle runs at most once for an entry; a call whose source root
\* and comma-joined patterns equal those of a stored call returns that
\* entry's verdict without a second oracle run, and a call served from the
\* table is served from an entry stored for its own source root.
C15_EntrySharedBySameRootAndJoin ==
    /\ \A k \in PmKeys : oracle_runs[k] <= 1
    /\ \A t \in Threads :
          ReturningFreshness(t)
              => /\ \A k \in PmKeys :
                       SameRootAndJoin(t, k)
                           => /\ k = OwnPmKey(t)
                              /\ oracle_runs[k] = 1
                              /\ result[t].freshness = path_modifications_cache[k]
                              /\ was_hit[t] \/ pm_inputs[k] = arg[t]
                 /\ was_hit[t] => SameRootAndJoin(t, OwnPmKey(t))
                 /\ \A k \in PmKeys :
                       (pm_inputs[k] # NoArg /\ pm_inputs[k][1] # arg[t][1])
                           => k # OwnPmKey(t)

\* a call with another pattern list of the same joined form is served from
\* the table
C15_Witness ==
    \E t \in Threads :
        /\ ReturningFreshness(t)
        /\ was_hit[t]
        /\ pm_inputs[OwnPmKey(t)][3] # arg[t][3]
        /\ oracle_runs[OwnPmKey(t)] = 1

\* C16 (as stated): whenever a check_path_modifications call is served from
\* the table, the call that stored the entry passed the same source root,
\* the same VCS configuration and the same list of patterns.
C16_KeyCapturesEveryInput ==
    \A t \in Threads :
        (ReturningFreshness(t) /\ was_hit[t])
            => pm_inputs[OwnPmKey(t)] = arg[t]

\* C18 (as stated): a read failure in read_file and an oracle failure in
\* check_path_modifications each print the single line "fatal error: ..." and
\* end the process with a non-zero exit code.
C18_FailuresAreFatal ==
    \A t \in Threads :
        pc[t] \in {"read_failed", "oracle_failed"}
            => /\ process = "exited"
               /\ exit_code # 0
               /\ stderr_lines = <<"fatal error:">>

\* the four tables
Tables ==
    <<command_output_cache, file_contents_cache, path_exist_cache,
      path_modifications_cache>>

\* C11: the four tables are empty at construction; a key once present stays
\* present with the value first stored; and a call that finds its key
\* present returns the stored value without calling the underlying command,
\* filesystem or oracle operation.
C11_TablesEmptyThenGrowOnly ==
    /\ \A i \in 1..4 : Tables[i] = EmptyCache
    /\ [][/\ \A i \in 1..4 : \A k \in DOMAIN Tables[i] :
                /\ k \in DOMAIN Tables'[i]
                /\ Tables'[i][k] = Tables[i][k]
          /\ \A t \in Threads :
                /\ (pc[t] = "lookup" /\ pc'[t] # "lookup"
                    /\ CacheHit(command_output_cache, command_key[t]))
                      => /\ pc'[t] = "return"
                         /\ result'[t] = command_output_cache[command_key[t]]
                         /\ UNCHANGED invocations
                /\ (pc[t] = "read_lock" /\ pc'[t] = "read_return"
                    /\ CacheHit(file_contents_cache, arg'[t][1]))
                      => /\ result'[t] = file_contents_cache[arg'[t][1]]
                         /\ UNCHANGED reads
                /\ (pc[t] = "exists_lock" /\ pc'[t] = "exists_return"
                    /\ CacheHit(path_exist_cache, arg'[t][1]))
                      => /\ result'[t].b = path_exist_cache[arg'[t][1]]
                         /\ UNCHANGED stats
                /\ (pc[t] = "pm_lock" /\ pc'[t] = "pm_return"
                    /\ CacheHit(path_modifications_cache,
                                PmKeyOf(arg'[t][1], arg'[t][3])))
                      => /\ result'[t].freshness =
                               path_modifications_cache[PmKeyOf(arg'[t][1],
                                                                arg'[t][3])]
                         /\ UNCHANGED oracle_runs]_vars

\* a read_file call is being served from the file table
C11_Witness ==
    \E t \in Threads :
        /\ ReturningRead(t)
        /\ was_hit[t]
        /\ result[t] = file_contents_cache[arg[t][1]]
        /\ reads[arg[t][1]] = 1

\* the table locks thread t holds
HeldBy(t) ==
    {l \in {"command_output_cache", "file_contents_cache", "path_exist_cache",
            "path_modifications_cache"} :
        \/ l = "command_output_cache" /\ cache_lock = t
        \/ l = "file_contents_cache" /\ file_lock = t
        \/ l = "path_exist_cache" /\ exist_lock = t
        \/ l = "path_modifications_cache" /\ pm_lock = t}

=============================================================================
